---- MODULE Spec2Model ----
(***************************************************************************)
(* A model of the URSL compiler's register allocation (common.rs,          *)
(* RegisterAllocation), of its function registry (main.rs,                 *)
(* parse_functions), of compile, emit and the end of main (main.rs), and   *)
(* of the lowering of literals (common.rs, lower_literal).                 *)
(***************************************************************************)
EXTENDS Integers, Sequences, FiniteSets, TLC

(* ------------------------------ bounds --------------------------------- *)
\* largest height of an allocation
MaxHeight == 4
\* largest register index that push / offset / apply_next may produce
MaxReg == 4
\* the write attempts of one normalize call that the output stream may fail
MaxFail == 2
\* how many top-level nodes (data definitions and declarations) the units hold in all
MaxDecls == 2
\* largest value of the bits header
MaxBits == 8

VARIABLES
    alloc,      \* RegisterAllocation.0: the abstract stack, bottom first
    max_regs,   \* the running maximum register index of emit
    last,       \* what the last RegisterAllocation operation was given and gave
    functions,  \* the registry: name -> entry, or Absent
    signatures, \* name -> (stack behaviour, has branch), or Absent
    errors,     \* the SourceErrors collected so far, in push order
    lastDecl,   \* the last declaration handled and the registry before it
    defs,       \* compile's defs: the data definitions, in push order
    unit,       \* the compilation unit compile is walking
    run,        \* how far the process is, the options it has read, what it wrote
    lit         \* the last call of lower_literal: what it was given and gave

vars == <<alloc, max_regs, last, functions, signatures, errors, lastDecl,
          defs, unit, run, lit>>

allocVars == <<alloc, max_regs, last>>
regVars == <<functions, signatures, errors, lastDecl>>
compVars == <<defs, unit, run, lit>>

(* ------------------------- small helpers ------------------------------- *)
Max(a, b) == IF a >= b THEN a ELSE b

\* Vec::contains
Contains(s, x) == \E i \in 1..Len(s) : s[i] = x

\* Iterator::position: the first (1-based) index whose element satisfies P, 0 for None
Position(s, P(_)) ==
    IF \E i \in 1..Len(s) : P(s[i])
    THEN CHOOSE i \in 1..Len(s) : P(s[i]) /\ \A j \in 1..(i - 1) : ~P(s[j])
    ELSE 0

\* Vec::swap_remove: the element at i is replaced by the last one, the Vec shrinks by one
swap_remove(s, i) ==
    IF i = Len(s) THEN SubSeq(s, 1, Len(s) - 1)
    ELSE SubSeq([s EXCEPT ![i] = s[Len(s)]], 1, Len(s) - 1)

(* --------------------- RegisterAllocation: queries --------------------- *)
\* RegisterAllocation::new
new == <<>>

\* the registers counted from zero: (0..height)
normal_from_zero(height) == [i \in 1..height |-> i - 1]

\* RegisterAllocation::normal
normal(height) == [i \in 1..height |-> i]

\* RegisterAllocation::top
top(a) == IF Len(a) = 0 THEN 0 ELSE a[Len(a)]

\* RegisterAllocation::is_unique
is_unique(a, reg) == Cardinality({i \in 1..Len(a) : a[i] = reg}) = 1

\* for i in from.. { if !self.0.contains(&i) { return i; } }
RECURSIVE next_from(_, _)
next_from(a, i) == IF ~Contains(a, i) THEN i ELSE next_from(a, i + 1)

\* the search started at register 0
next_zero(a) == next_from(a, 0)

\* RegisterAllocation::next: the first i of 1.. that the Vec does not contain
next(a) == next_from(a, 1)

\* RegisterAllocation::get: the last `length` entries
get(a, length) == SubSeq(a, Len(a) - length + 1, Len(a))

\* RegisterAllocation::pop: Vec::pop on an empty Vec is a no-op
pop(a, length) == SubSeq(a, 1, Max(Len(a) - length, 0))

\* RegisterAllocation::push
push(a, r) == Append(a, r)

\* RegisterAllocation::offset
offset(a, d) == [i \in 1..Len(a) |-> a[i] + d]

(* ------------------ RegisterAllocation::apply_* ------------------------ *)
\* A Permutation: input arity N and output indices, each in [0, N)
Permutation(input, output) == [input |-> input, output |-> output]

\* the permutations tried: the identities (N : 0 .. N-1) up to N = 3, a swap, a
\* rotation, and reshapes that repeat an index, leave one out, or do both
PermutationSigs ==
    {Permutation(0, <<>>), Permutation(1, <<0>>), Permutation(2, <<0, 1>>),
     Permutation(3, <<0, 1, 2>>), Permutation(2, <<1, 0>>), Permutation(3, <<1, 2, 0>>),
     Permutation(1, <<0, 0>>), Permutation(1, <<>>), Permutation(2, <<1>>),
     Permutation(2, <<0, 1, 0>>)}

\* the permutation indexing the whole stack instead of the snapshot of its top
apply_permutation_bottom(a, perm) ==
    pop(a, perm.input) \o [j \in 1..Len(perm.output) |-> a[perm.output[j] + 1]]

\* RegisterAllocation::apply_permutation: snapshot, pop, push inputs[i] for each output i
apply_permutation(a, perm) ==
    LET inputs == get(a, perm.input)
        popped == pop(a, Len(inputs))
    IN popped \o [j \in 1..Len(perm.output) |-> inputs[perm.output[j] + 1]]

(* ------------------ RegisterAllocation::normalize ---------------------- *)
\* The output stream f: the set of write attempts (counted from 1) that fail.
\* The error a failed attempt returns is identified by the attempt's number.
Writers == SUBSET (1..MaxFail)

Ok == 0

\* the changes without the filter on src != dest
pending_unfiltered(a) == [dest \in 1..Len(a) |-> <<a[dest], dest>>]

\* the pending changes (src, dest) of the mismatched slots, in slot order
pending(a) ==
    SelectSeq([dest \in 1..Len(a) |-> <<a[dest], dest>>], LAMBDA c : c[1] # c[2])

\* the loop body with .max(dest) left out
emit_mov_src(st, dest, src, writer) ==
    LET mr == Max(st.max_regs, src)
    IN IF st.result # Ok
       THEN [st EXCEPT !.max_regs = mr]
       ELSE IF (st.attempts + 1) \in writer
            THEN [st EXCEPT !.max_regs = mr, !.attempts = @ + 1,
                            !.result = st.attempts + 1]
            ELSE [st EXCEPT !.max_regs = mr, !.attempts = @ + 1,
                            !.out = Append(@, <<dest, src>>)]

\* the loop body written with the ? operator: nothing is done once a write failed
emit_mov_try(st, dest, src, writer) ==
    IF st.result # Ok THEN st
    ELSE IF (st.attempts + 1) \in writer
         THEN [st EXCEPT !.attempts = @ + 1, !.result = st.attempts + 1]
         ELSE [st EXCEPT !.max_regs = Max(Max(st.max_regs, src), dest),
                         !.attempts = @ + 1, !.out = Append(@, <<dest, src>>)]

\* one pass of a loop body: *max_regs = max(src).max(dest);
\* result = result.and_then(|()| writeln!(f, "MOV ${} ${}", dest, src))
emit_mov(st, dest, src, writer) ==
    LET mr == Max(Max(st.max_regs, src), dest)
    IN IF st.result # Ok
       THEN [st EXCEPT !.max_regs = mr]
       ELSE IF (st.attempts + 1) \in writer
            THEN [st EXCEPT !.max_regs = mr, !.attempts = @ + 1,
                            !.result = st.attempts + 1]
            ELSE [st EXCEPT !.max_regs = mr, !.attempts = @ + 1,
                            !.out = Append(@, <<dest, src>>)]

\* the first change, whether or not a remaining change reads from its dest
dangling_position_any(changes) == IF Len(changes) = 0 THEN 0 ELSE 1

\* the first change whose dest no remaining change reads from
dangling_position(changes) ==
    Position(changes, LAMBDA c : ~\E k \in 1..Len(changes) : changes[k][1] = c[2])

\* while let Some(dangling) = ... { swap_remove, emit }
RECURSIVE dangling_phase(_, _, _)
dangling_phase(changes, st, writer) ==
    LET dangling == dangling_position(changes)
    IN IF dangling = 0
       THEN [changes |-> changes, st |-> st]
       ELSE dangling_phase(swap_remove(changes, dangling),
                           emit_mov(st, changes[dangling][2], changes[dangling][1], writer),
                           writer)

\* the temporary taken to be the top slot's register
temp_of_top(length) == length

\* the temporary register of the cycle phase
temp_of(length) == length + 1

\* while let Some(i) = changes.position(src == last_dest) { swap_remove; push; last_dest = dest }
RECURSIVE walk_cycle(_, _, _)
walk_cycle(changes, circular, last_dest) ==
    LET i == Position(changes, LAMBDA c : c[1] = last_dest)
    IN IF i = 0
       THEN [changes |-> changes, circular |-> circular]
       ELSE walk_cycle(swap_remove(changes, i), Append(circular, last_dest), changes[i][2])

\* for i in 1..circular.len() { src = circular[i]; dest = circular[i - 1]; emit }
RECURSIVE emit_circular(_, _, _, _)
emit_circular(circular, i, st, writer) ==
    IF i > Len(circular) THEN st
    ELSE emit_circular(circular, i + 1,
                       emit_mov(st, circular[i - 1], circular[i], writer), writer)

\* while let Some((first_src, last_dest)) = changes.pop() { ... }
RECURSIVE cycle_phase(_, _, _, _)
cycle_phase(changes, st, temp, writer) ==
    IF Len(changes) = 0 THEN st
    ELSE LET first_src == changes[Len(changes)][1]
             last_dest == changes[Len(changes)][2]
             w == walk_cycle(SubSeq(changes, 1, Len(changes) - 1),
                             <<temp, first_src>>, last_dest)
             circular == Append(w.circular, temp)
         IN cycle_phase(w.changes, emit_circular(circular, 2, st, writer), temp, writer)

\* the rewrite with the registers counted from zero
rewrite_from_zero(a) == [i \in 1..Len(a) |-> i - 1]

\* for i in 0..self.0.len() { self.0[i] = i + 1 }
rewrite(a) == [i \in 1..Len(a) |-> i]

\* RegisterAllocation::normalize: the allocation, max_regs, the io::Result and
\* the MOV lines <<dest, src>> that reached the stream
normalize(a, mr, writer) ==
    LET length == Len(a)
        st0 == [max_regs |-> mr, result |-> Ok, out |-> <<>>, attempts |-> 0]
        d == dangling_phase(pending(a), st0, writer)
        c == cycle_phase(d.changes, d.st, temp_of(length), writer)
    IN [alloc |-> rewrite(a), max_regs |-> c.max_regs, result |-> c.result, out |-> c.out]

(* -------------------- the allocator as a state machine ----------------- *)
\* nothing is being looked at: the caller is between two calls
NoOp == [op |-> "none", pre |-> <<>>, premax |-> 0, arg |-> 0,
         out |-> <<>>, result |-> Ok, ret |-> 0]

\* the call just made: what it was given (the allocation, max_regs, the
\* argument) and what it returned
Did(op, arg, ret) ==
    [NoOp EXCEPT !.op = op, !.pre = alloc, !.premax = max_regs, !.arg = arg, !.ret = ret]

\* the caller is free to make its next call
Ready == last = NoOp

\* a function starts from RegisterAllocation::normal(height); max_regs lives on
Normal(height) ==
    /\ Ready
    /\ alloc' = normal(height)
    /\ last' = Did("normal", height, 0)
    /\ UNCHANGED <<max_regs, regVars, compVars>>

Push(r) ==
    /\ Ready
    /\ Len(alloc) < MaxHeight
    /\ alloc' = push(alloc, r)
    /\ last' = Did("push", r, 0)
    /\ UNCHANGED <<max_regs, regVars, compVars>>

Pop(length) ==
    /\ Ready
    /\ alloc' = pop(alloc, length)
    /\ last' = Did("pop", length, 0)
    /\ UNCHANGED <<max_regs, regVars, compVars>>

Offset(d) ==
    /\ Ready
    /\ \A i \in 1..Len(alloc) : alloc[i] + d <= MaxReg
    /\ alloc' = offset(alloc, d)
    /\ last' = Did("offset", d, 0)
    /\ UNCHANGED <<max_regs, regVars, compVars>>

ApplyNext ==
    /\ Ready
    /\ Len(alloc) < MaxHeight
    /\ next(alloc) <= MaxReg
    /\ alloc' = push(alloc, next(alloc))
    /\ last' = Did("apply_next", 0, next(alloc))
    /\ UNCHANGED <<max_regs, regVars, compVars>>

\* a caller asks next() which register a push would take
PeekNext ==
    /\ Ready
    /\ last' = Did("next", 0, next(alloc))
    /\ UNCHANGED <<alloc, max_regs, regVars, compVars>>

ApplyPop1 ==
    /\ Ready
    /\ alloc' = pop(alloc, 1)
    /\ last' = Did("apply_pop1", 0, top(alloc))
    /\ UNCHANGED <<max_regs, regVars, compVars>>

\* get() panics when the allocation is shallower than perm.input
ApplyPermutation(perm) ==
    /\ Ready
    /\ perm.input <= Len(alloc)
    /\ Len(alloc) - perm.input + Len(perm.output) <= MaxHeight
    /\ alloc' = apply_permutation(alloc, perm)
    /\ last' = Did("apply_permutation", perm, 0)
    /\ UNCHANGED <<max_regs, regVars, compVars>>

Normalize(writer) ==
    LET n == normalize(alloc, max_regs, writer)
    IN /\ Ready
       /\ alloc' = n.alloc
       /\ max_regs' = n.max_regs
       /\ last' = [op |-> "normalize", pre |-> alloc, premax |-> max_regs, arg |-> writer,
                   out |-> n.out, result |-> n.result, ret |-> 0]
       /\ UNCHANGED <<regVars, compVars>>

\* the caller goes on with the allocation and max_regs as the call left them
Resume ==
    /\ ~Ready
    /\ last' = NoOp
    /\ UNCHANGED <<alloc, max_regs, regVars, compVars>>

AllocInit ==
    /\ alloc = new
    /\ max_regs = 0
    /\ last = NoOp

AllocNext ==
    \/ Ready /\ \E h \in 0..MaxHeight : Normal(h)
    \/ Ready /\ \E r \in 1..MaxReg : Push(r)
    \/ Ready /\ \E k \in 1..(MaxHeight + 1) : Pop(k)
    \/ Ready /\ \E d \in 1..MaxReg : Offset(d)
    \/ Ready /\ ApplyNext
    \/ Ready /\ PeekNext
    \/ Ready /\ ApplyPop1
    \/ Ready /\ \E perm \in PermutationSigs : ApplyPermutation(perm)
    \/ Ready /\ \E writer \in Writers : Normalize(writer)
    \/ Resume

(* ------------------------- the function registry ----------------------- *)
\* the names the declarations use; `functions` is keyed by name alone
Names == {"$main", "halt"}

\* ["halt", "ret"]: the names of the intrinsics an inst may not take
Intrinsics == {"halt", "ret"}

stack(in, out) == [input |-> in, output |-> out]

\* the arities written in the declarations: those of $main (0 -> 0), of the
\* dunder sugar (1 -> 1, 2 -> 1), of a branch (n -> 1), of a multi-word return
Arities == {0, 1, 2}

StackBehaviours == {stack(i, o) : i \in Arities, o \in Arities}

\* the permutation signatures a declaration may carry
PermutationDecls ==
    {p \in PermutationSigs : p.input \in Arities /\ Len(p.output) \in Arities}

\* an extern declaration's CallingConvention and its raw label, if it has one:
\* no label, a label, a label with a dot in it
ExternForms ==
    {<<"URSL", "None">>, <<"URSL", "lb.l">>, <<"Hexagn", "None">>, <<"Hexagn", "lbl">>}

\* no entry under this name
Absent == [body |-> "Absent"]

NoBranch == [input |-> 0, pos |-> 0]

\* a Function: its stack behaviour, the kind of its FunctionBody, the overloads
\* and the branch of an Urcl body, and the position of its declaration
Function(body, st, overloads, branch, pos) ==
    [body |-> body, stack |-> st, overloads |-> overloads, branch |-> branch, pos |-> pos]

\* an UrclMainBody, by the lengths of its input and output bindings
UrclMainBody(st, pos) == [stack |-> st, pos |-> pos]

\* an UrclBranchBody, by the length of its input bindings
UrclBranchBody(in, pos) == [input |-> in, pos |-> pos]

\* err!: a SourceError
SourceError(kind, name, pos) == [kind |-> kind, name |-> name, pos |-> pos]

\* the position of the declaration being handled: its ordinal in the source
Here == lastDecl.idx + 1

Handled(form, name, st) ==
    [form |-> form, name |-> name, stack |-> st, idx |-> Here,
     before |-> functions[name], nerr |-> Len(errors)]

\* compile is still walking the units, and they hold a further node
CanDeclare == run.stage = "compile" /\ lastDecl.idx < MaxDecls

\* the deferred declaration that overlooks an existing entry altogether
DeferredFunc_silent(name, st) ==
    /\ CanDeclare
    /\ LET f == functions[name]
       IN IF f # Absent
          THEN UNCHANGED <<functions, signatures, errors>>
          ELSE /\ functions' = [functions EXCEPT
                                  ![name] = Function("Deferred", st, <<>>, NoBranch, Here)]
               /\ signatures' = [signatures EXCEPT ![name] = <<st, FALSE>>]
               /\ UNCHANGED errors
    /\ lastDecl' = Handled("deferred_func", name, st)
    /\ UNCHANGED <<allocVars, compVars>>

\* "deferred_func"
DeferredFunc(name, st) ==
    /\ CanDeclare
    /\ LET f == functions[name]
       IN IF f # Absent
          THEN /\ errors' = IF f.stack # st
                            THEN Append(errors, SourceError("Conflicting stack behaviour", name, Here))
                            ELSE errors
               /\ UNCHANGED <<functions, signatures>>
          ELSE /\ functions' = [functions EXCEPT
                                  ![name] = Function("Deferred", st, <<>>, NoBranch, Here)]
               /\ signatures' = [signatures EXCEPT ![name] = <<st, FALSE>>]
               /\ UNCHANGED errors
    /\ lastDecl' = Handled("deferred_func", name, st)
    /\ UNCHANGED <<allocVars, compVars>>

\* the merge without the comparison of the stack behaviours
MergeDefinition_unchecked(name, st, body, errs) ==
    LET old_func == functions[name]
    IN IF old_func # Absent
       THEN IF old_func.body = "Deferred"
            THEN /\ functions' = [functions EXCEPT
                                    ![name] = [old_func EXCEPT !.body = body, !.pos = Here]]
                 /\ errors' = errs
                 /\ UNCHANGED signatures
            ELSE /\ errors' = Append(errs, SourceError("Duplicate func", name, Here))
                 /\ UNCHANGED <<functions, signatures>>
       ELSE /\ functions' = [functions EXCEPT
                               ![name] = Function(body, st, <<>>, NoBranch, Here)]
            /\ signatures' = [signatures EXCEPT ![name] = <<st, FALSE>>]
            /\ errors' = errs

\* the merge that "extern_func" and "func" share: promote a Deferred entry of
\* equal stack behaviour, report any other existing entry, insert when absent
MergeDefinition(name, st, body, errs) ==
    LET old_func == functions[name]
    IN IF old_func # Absent
       THEN IF old_func.body = "Deferred"
            THEN IF old_func.stack # st
                 THEN /\ errors' = Append(errs,
                                     SourceError("Conflicting stack behaviour", name, Here))
                      /\ UNCHANGED <<functions, signatures>>
                 ELSE /\ functions' = [functions EXCEPT
                                         ![name] = [old_func EXCEPT !.body = body, !.pos = Here]]
                      /\ errors' = errs
                      /\ UNCHANGED signatures
            ELSE /\ errors' = Append(errs, SourceError("Duplicate func", name, Here))
                 /\ UNCHANGED <<functions, signatures>>
       ELSE /\ functions' = [functions EXCEPT
                               ![name] = Function(body, st, <<>>, NoBranch, Here)]
            /\ signatures' = [signatures EXCEPT ![name] = <<st, FALSE>>]
            /\ errors' = errs

\* the errors "extern_func" finds in the label and the calling convention
ExternErrors(name, st, call_convention, label) ==
    (IF label # "None"
     THEN IF label = "lb.l" THEN <<SourceError("Raw label name must not contain a dot", name, Here)>>
                            ELSE <<>>
     ELSE IF call_convention = "Hexagn"
          THEN <<SourceError("Hexagn name mangling is not supported", name, Here)>>
          ELSE <<>>)
    \o (IF call_convention = "Hexagn" /\ st.output > 1
        THEN <<SourceError("Hexagn only supports single word returns", name, Here)>>
        ELSE <<>>)

\* "extern_func"
ExternFunc(name, st, call_convention, label) ==
    /\ CanDeclare
    /\ MergeDefinition(name, st, "Extern",
                       errors \o ExternErrors(name, st, call_convention, label))
    /\ lastDecl' = Handled("extern_func", name, st)
    /\ UNCHANGED <<allocVars, compVars>>

\* "func"
Func(name, st) ==
    /\ CanDeclare
    /\ MergeDefinition(name, st, "Ursl", errors)
    /\ lastDecl' = Handled("func", name, st)
    /\ UNCHANGED <<allocVars, compVars>>

\* if ["halt", "ret"].contains(&name) { err!(...) }
IntrinsicErrors(name) ==
    IF name \in Intrinsics
    THEN <<SourceError("is also defined as intrinsic", name, Here)>>
    ELSE <<>>

\* "inst"
Inst(name, st) ==
    /\ CanDeclare
    /\ LET f == functions[name]
           body == UrclMainBody(st, Here)
           errs == errors \o IntrinsicErrors(name)
       IN IF f # Absent
          THEN IF f.body = "Urcl"
               THEN /\ errors' = IF st # f.stack
                                 THEN Append(errs,
                                        SourceError("Conflicting stack behaviour", name, Here))
                                 ELSE errs
                    /\ functions' = [functions EXCEPT
                                       ![name].overloads = Append(@, body)]
                    /\ UNCHANGED signatures
               ELSE /\ errors' = Append(errs, SourceError("inst is also defined at", name, Here))
                    /\ UNCHANGED <<functions, signatures>>
          ELSE /\ functions' = [functions EXCEPT
                                  ![name] = Function("Urcl", st, <<body>>, NoBranch, Here)]
               /\ signatures' = [signatures EXCEPT ![name] = <<st, FALSE>>]
               /\ errors' = errs
    /\ lastDecl' = Handled("inst", name, st)
    /\ UNCHANGED <<allocVars, compVars>>

\* "inst_branch": the stack behaviour is (input.len(), 1)
InstBranch(name, in) ==
    /\ CanDeclare
    /\ LET f == functions[name]
           st == stack(in, 1)
           branch == UrclBranchBody(in, Here)
           errs == errors \o IntrinsicErrors(name)
       IN /\ IF f # Absent
             THEN IF f.body = "Urcl"
                  THEN /\ errors' =
                            errs
                            \o (IF f.stack.input # st.input
                                THEN <<SourceError("branch has different input items", name, Here)>>
                                ELSE <<>>)
                            \o (IF f.stack.output # st.output
                                THEN <<SourceError("branch has different output items", name, Here)>>
                                ELSE <<>>)
                            \o (IF f.branch # NoBranch
                                THEN <<SourceError("branch is also defined at", name, Here)>>
                                ELSE <<>>)
                       /\ functions' = [functions EXCEPT ![name].branch = branch]
                       /\ signatures' = IF f.branch # NoBranch THEN signatures
                                        ELSE [signatures EXCEPT ![name][2] = TRUE]
                  ELSE /\ errors' = Append(errs,
                                      SourceError("inst is also defined at", name, Here))
                       /\ UNCHANGED <<functions, signatures>>
             ELSE /\ functions' = [functions EXCEPT
                                     ![name] = Function("Urcl", st, <<>>, branch, Here)]
                  /\ signatures' = [signatures EXCEPT ![name] = <<st, TRUE>>]
                  /\ errors' = errs
          /\ lastDecl' = Handled("inst_branch", name, st)
    /\ UNCHANGED <<allocVars, compVars>>

\* the permutation declared without a look at the existing entry
InstPermutation_unchecked(name, perm) ==
    /\ CanDeclare
    /\ LET st == stack(perm.input, Len(perm.output))
       IN /\ errors' = errors \o IntrinsicErrors(name)
          /\ functions' = [functions EXCEPT
                             ![name] = Function("Permutation", st, <<>>, NoBranch, Here)]
          /\ signatures' = [signatures EXCEPT ![name] = <<st, FALSE>>]
          /\ lastDecl' = Handled("inst_permutation", name, st)
    /\ UNCHANGED <<allocVars, compVars>>

\* "inst_permutation": reports an existing entry, and inserts over it
InstPermutation(name, perm) ==
    /\ CanDeclare
    /\ LET st == stack(perm.input, Len(perm.output))
       IN /\ errors' = errors \o IntrinsicErrors(name)
                       \o (IF functions[name] # Absent
                           THEN <<SourceError("inst is also defined at", name, Here)>>
                           ELSE <<>>)
          /\ functions' = [functions EXCEPT
                             ![name] = Function("Permutation", st, <<>>, NoBranch, Here)]
          /\ signatures' = [signatures EXCEPT ![name] = <<st, FALSE>>]
          /\ lastDecl' = Handled("inst_permutation", name, st)
    /\ UNCHANGED <<allocVars, compVars>>

\* the registry entry written without signatures.insert
Dunder_unsigned(form, name, st, branch) ==
    /\ CanDeclare
    /\ functions' = [functions EXCEPT
                       ![name] = Function("Urcl", st, <<UrclMainBody(st, Here)>>, branch, Here)]
    /\ lastDecl' = Handled(form, name, st)
    /\ UNCHANGED <<signatures, errors, allocVars, compVars>>

\* the dunder sugar: functions.insert and signatures.insert, nothing is looked up
Dunder(form, name, st, branch) ==
    /\ CanDeclare
    /\ functions' = [functions EXCEPT
                       ![name] = Function("Urcl", st, <<UrclMainBody(st, Here)>>, branch, Here)]
    /\ signatures' = [signatures EXCEPT ![name] = <<st, branch # NoBranch>>]
    /\ lastDecl' = Handled(form, name, st)
    /\ UNCHANGED <<errors, allocVars, compVars>>

\* "dunder_unary"
DunderUnary(name) == Dunder("dunder_unary", name, stack(1, 1), NoBranch)

\* "dunder_binary"
DunderBinary(name) == Dunder("dunder_binary", name, stack(2, 1), NoBranch)

\* "dunder_branching"
DunderBranching(name) ==
    Dunder("dunder_branching", name, stack(2, 1), UrclBranchBody(2, Here))

\* compile: errors, functions and signatures start empty
RegInit ==
    /\ functions = [n \in Names |-> Absent]
    /\ signatures = [n \in Names |-> Absent]
    /\ errors = <<>>
    /\ lastDecl = [form |-> "none", name |-> "", stack |-> stack(0, 0), idx |-> 0,
                   before |-> Absent, nerr |-> 0]

RegNext ==
    \/ CanDeclare /\ \E name \in Names, st \in StackBehaviours : DeferredFunc(name, st)
    \/ CanDeclare /\ \E name \in Names, st \in StackBehaviours, form \in ExternForms :
          ExternFunc(name, st, form[1], form[2])
    \/ CanDeclare /\ \E name \in Names, st \in StackBehaviours : Func(name, st)
    \/ CanDeclare /\ \E name \in Names, st \in StackBehaviours : Inst(name, st)
    \/ CanDeclare /\ \E name \in Names, in \in Arities : InstBranch(name, in)
    \/ CanDeclare /\ \E name \in Names, perm \in PermutationDecls : InstPermutation(name, perm)
    \/ CanDeclare /\ \E name \in Names : DunderUnary(name)
    \/ CanDeclare /\ \E name \in Names : DunderBinary(name)
    \/ CanDeclare /\ \E name \in Names : DunderBranching(name)

(* ------------------------ compile, main and emit ----------------------- *)
\* units = &[&prelude, &main]
NumUnits == 2

\* the labels of the data definitions
DataLabels == {"a", "b"}

\* the position of the node with ordinal p: its unit and its row in that unit
\* (the rows start anew in every unit); None for no position
None == [unit |-> 0, row |-> 0]

PositionOf(p) ==
    IF p = 0 THEN None
    ELSE IF p <= unit.base THEN [unit |-> 1, row |-> p]
         ELSE [unit |-> unit.no, row |-> p - unit.base]

\* the data loop of a unit comes before its parse_functions: a data definition
\* is handled only while no declaration of the unit has been
InData == lastDecl.idx = unit.base \/ lastDecl.form = "data"

\* one turn of the data loop: defs.push((label, literal)), and the errors of
\* the literal, if it has any
DataDef(label, bad) ==
    /\ CanDeclare
    /\ InData
    /\ defs' = Append(defs, [label |-> label, unit |-> unit.no, pos |-> Here])
    /\ errors' = IF bad THEN Append(errors, SourceError("data literal", label, Here))
                 ELSE errors
    /\ lastDecl' = [form |-> "data", name |-> label, stack |-> stack(0, 0), idx |-> Here,
                    before |-> Absent, nerr |-> Len(errors)]
    /\ UNCHANGED <<functions, signatures, unit, run, lit, allocVars>>

\* for unit in units: the walk goes on to the next unit
NextUnit ==
    /\ run.stage = "compile"
    /\ unit.no < NumUnits
    /\ unit' = [no |-> unit.no + 1, base |-> lastDecl.idx]
    /\ UNCHANGED <<regVars, defs, run, lit, allocVars>>

\* the keys of the BTreeMap in their order (Ord for str: '$' sorts before 'h')
NameOrder == <<"$main", "halt">>

\* the names in declaration order of their entries
NamesByPos(fs) ==
    IF fs["halt"] # Absent /\ fs["$main"] # Absent /\ fs["halt"].pos < fs["$main"].pos
    THEN <<"halt", "$main">>
    ELSE NameOrder

\* the order of a plain list of declarations
keys_by_pos(fs) == SelectSeq(NamesByPos(fs), LAMBDA n : fs[n] # Absent)

\* BTreeMap::values, by the keys it yields
keys(fs) == SelectSeq(NameOrder, LAMBDA n : fs[n] # Absent)

\* the loop without its look at the entry's body
deferred_errors_unfiltered(fs) ==
    LET ks == keys(fs)
    IN [i \in 1..Len(ks) |-> SourceError("declared, but never given a body", ks[i], fs[ks[i]].pos)]

\* "function {} is declared, but never given a body"
deferred_errors(fs) ==
    LET ks == SelectSeq(keys(fs), LAMBDA n : fs[n].body = "Deferred")
    IN [i \in 1..Len(ks) |-> SourceError("declared, but never given a body", ks[i], fs[ks[i]].pos)]

\* the $main checks that look at the input arity alone
main_errors_input_only(no_main, fs) ==
    IF no_main THEN <<>>
    ELSE IF fs["$main"] # Absent
         THEN IF fs["$main"].stack.input # 0
              THEN <<SourceError("$main may not take any arguments", "$main", fs["$main"].pos)>>
              ELSE <<>>
         ELSE <<SourceError("No $main function", "$main", 0)>>

\* the $main checks
main_errors(no_main, fs) ==
    IF no_main THEN <<>>
    ELSE IF fs["$main"] # Absent
         THEN (IF fs["$main"].stack.input # 0
               THEN <<SourceError("$main may not take any arguments", "$main", fs["$main"].pos)>>
               ELSE <<>>)
              \o (IF fs["$main"].stack.output # 0
                  THEN <<SourceError("$main may not return any values", "$main", fs["$main"].pos)>>
                  ELSE <<>>)
         ELSE <<SourceError("No $main function", "$main", 0)>>

\* the closure given to errors.sort_by: the rows are compared, nothing else is
cmp(a, b) ==
    IF a.pos # 0
    THEN IF b.pos # 0
         THEN IF PositionOf(a.pos).row < PositionOf(b.pos).row THEN "Less"
              ELSE IF PositionOf(a.pos).row > PositionOf(b.pos).row THEN "Greater"
              ELSE "Equal"
         ELSE "Greater"
    ELSE IF b.pos # 0 THEN "Less" ELSE "Equal"

\* slice::sort_by, a stable sort: an element goes before the first one it is Less than
RECURSIVE sort_by(_)
sort_by(s) ==
    IF Len(s) = 0 THEN <<>>
    ELSE LET sorted == sort_by(SubSeq(s, 1, Len(s) - 1))
             e == s[Len(s)]
             at == Position(sorted, LAMBDA x : cmp(e, x) = "Less")
         IN IF at = 0 THEN Append(sorted, e)
            ELSE SubSeq(sorted, 1, at - 1) \o <<e>> \o SubSeq(sorted, at, Len(sorted))

\* the end of compile, after the last unit: the Deferred entries and $main are
\* checked, the errors are sorted and returned
CompileEnd(no_main) ==
    /\ run.stage = "compile"
    /\ unit.no = NumUnits
    /\ errors' = sort_by(errors \o deferred_errors(functions) \o main_errors(no_main, functions))
    /\ run' = [run EXCEPT !.stage = "compiled", !.no_main = no_main, !.parsed = errors]
    /\ UNCHANGED <<functions, signatures, lastDecl, defs, unit, lit, allocVars>>

\* a line of the output
Line(op, name, n) == [op |-> op, name |-> name, n |-> n]

\* the registers the lowering of one function may come to use
RegNeeds == {0, 3}

\* ursl::emit_instructions: the function's code goes to contents, and max_regs
\* is raised to the largest register its lowering used
emit_instructions(st, name, need) ==
    [contents |-> Append(st.contents, Line("code", name, 0)),
     max_regs |-> Max(st.max_regs, need)]

RECURSIVE emit_functions(_, _, _, _)
emit_functions(st, fs, ks, needs) ==
    IF Len(ks) = 0 THEN st
    ELSE emit_functions(IF fs[ks[1]].body = "Ursl"
                        THEN emit_instructions(st, ks[1], needs[ks[1]])
                        ELSE st,
                        fs, Tail(ks), needs)

\* emit: the headers, then MINREG, then contents (the call of $main, the
\* data, the code of the functions)
emit(no_main, ds, fs, needs) ==
    LET call == IF ~no_main THEN <<Line("CAL", "$main", 0), Line("HLT", "", 0)>> ELSE <<>>
        data == [i \in 1..Len(ds) |-> Line("DW", ds[i].label, 0)]
        st == emit_functions([contents |-> call \o data, max_regs |-> 0], fs, keys(fs), needs)
    IN [file |-> <<Line("BITS", "", 0), Line("MINHEAP", "", 0), Line("MINSTACK", "", 0),
                   Line("MINREG", "", st.max_regs)>> \o st.contents,
        max_regs |-> st.max_regs]

\* whether main goes past the errors to the output: always
proceeds_always(errs, fuck_it) == TRUE

\* whether main goes past the errors to the output
proceeds(errs, fuck_it) == errs = <<>> \/ fuck_it

\* the register needs of the Ursl functions, none for the entries of other bodies
Needs ==
    {needs \in [Names -> RegNeeds] :
        \A n \in Names : (functions[n] = Absent \/ functions[n].body # "Ursl") => needs[n] = 0}

\* main after compile has returned: std::process::exit(1), or File::create and emit
Main(fuck_it, needs) ==
    /\ run.stage = "compiled"
    /\ IF proceeds(errors, fuck_it)
       THEN LET e == emit(run.no_main, defs, functions, needs)
            IN /\ run' = [run EXCEPT !.stage = "exit", !.fuck_it = fuck_it, !.code = 0,
                                     !.created = TRUE, !.emitted = TRUE,
                                     !.file = e.file, !.needs = needs]
               /\ max_regs' = e.max_regs
       ELSE /\ run' = [run EXCEPT !.stage = "exit", !.fuck_it = fuck_it, !.code = 1]
            /\ UNCHANGED max_regs
    /\ UNCHANGED <<alloc, last, regVars, defs, unit, lit>>

(* --------------------------- lower_literal ----------------------------- *)
\* a Literal: its variant and its payload (a char by its codepoint)
Literal(kind, v) == [kind |-> kind, v |-> v]

\* the chars tried: NUL, tab, LF, CR, the quote, '0', 'A', the backslash, 'n',
\* 'q', 'r', 't', 'x' and a char beyond one byte
LitChars == {0, 9, 10, 13, 39, 48, 65, 92, 110, 113, 114, 116, 120, 955}

Literals ==
    {Literal("Num", n) : n \in 0..(2 ^ MaxBits + 1)}
    \cup {Literal("Char", c) : c \in LitChars}
    \cup {Literal("CharEscape", c) : c \in LitChars}
    \cup {Literal(k, 0) : k \in {"Macro", "Mem", "Label", "Func"}}

\* main: emit_chars_as_numbers sets emit_chars_literally
main_args(c, C) == [emit_chars_literally |-> c \/ C, emit_chars_as_numbers |-> C]

\* what lower_literal comes to: it returns a Literal, or it panics
Returns(element) == [panic |-> "none", value |-> element]

Panics(message) == [panic |-> message, value |-> Literal("none", 0)]

\* the match on the escape: ' \ n r t 0
Escapes == (39 :> 39) @@ (92 :> 92) @@ (110 :> 10) @@ (114 :> 13) @@ (116 :> 9) @@ (48 :> 0)

\* the match that takes any other escape for the char itself
unescape_lenient(escape) ==
    IF escape \in DOMAIN Escapes THEN Returns(Literal("Char", Escapes[escape]))
    ELSE Returns(Literal("Char", escape))

\* Literal::Char(match escape { ... ch => unreachable!("Unknown escape sequence") })
unescape(escape) ==
    IF escape \in DOMAIN Escapes THEN Returns(Literal("Char", Escapes[escape]))
    ELSE Panics("Unknown escape sequence")

\* BigUint::bits: the fewest bits that hold n, 0 for 0
RECURSIVE bits(_)
bits(n) == IF n = 0 THEN 0 ELSE 1 + bits(n \div 2)

\* the assertion with < for <=
fits_strict(n, headers) == bits(n) < headers.bits

\* n.bits() <= headers.bits
fits(n, headers) == bits(n) <= headers.bits

lower_literal(args, headers, element) ==
    LET e1 == IF args.emit_chars_literally /\ element.kind = "CharEscape"
              THEN unescape(element.v)
              ELSE Returns(element)
        e2 == IF e1.panic = "none" /\ args.emit_chars_as_numbers /\ e1.value.kind = "Char"
              THEN Returns(Literal("Num", e1.value.v))
              ELSE e1
    IN IF e2.panic = "none" /\ e2.value.kind = "Num" /\ ~fits(e2.value.v, headers)
       THEN Panics("your literals don't fit within the given bits value")
       ELSE e2

\* the literal lower_literal was last given: none yet
NoLit == [called |-> FALSE]

\* one call of lower_literal, under the options main hands on
LowerLiteral(c, C, headers, element) ==
    /\ lit = NoLit
    /\ lit' = [called |-> TRUE, args |-> main_args(c, C), headers |-> headers,
               element |-> element,
               result |-> lower_literal(main_args(c, C), headers, element)]
    /\ UNCHANGED <<allocVars, regVars, defs, unit, run>>

LitNext ==
    /\ lit = NoLit
    /\ \E c \in BOOLEAN, C \in BOOLEAN, b \in 0..MaxBits, element \in Literals :
          LowerLiteral(c, C, [bits |-> b], element)

\* compile: defs starts empty, the walk starts at the first unit
CompInit ==
    /\ defs = <<>>
    /\ unit = [no |-> 1, base |-> 0]
    /\ run = [stage |-> "compile", no_main |-> FALSE, fuck_it |-> FALSE, parsed |-> <<>>,
              code |-> 0, created |-> FALSE, emitted |-> FALSE, file |-> <<>>,
              needs |-> [n \in Names |-> 0]]
    /\ lit = NoLit

\* the stack behaviours tried on $main: (0, 0), an input, an output
MainStacks == {stack(0, 0), stack(1, 0), stack(0, 1)}

CompileNext ==
    \/ CanDeclare /\ \E label \in DataLabels, bad \in BOOLEAN : DataDef(label, bad)
    \/ CanDeclare /\ \E name \in Names, st \in MainStacks : DeferredFunc(name, st)
    \/ CanDeclare /\ \E name \in Names, st \in MainStacks : ExternFunc(name, st, "URSL", "None")
    \/ CanDeclare /\ \E name \in Names, st \in MainStacks : Func(name, st)
    \/ CanDeclare /\ \E name \in Names : Inst(name, stack(0, 0))
    \/ NextUnit
    \/ \E no_main \in BOOLEAN : CompileEnd(no_main)
    \/ \E fuck_it \in BOOLEAN, needs \in Needs : Main(fuck_it, needs)

\* compile has nothing declared yet, emit has lowered nothing yet
Init == AllocInit /\ RegInit /\ CompInit

\* the allocator on its own: one function after another is lowered
SpecAlloc == Init /\ [][AllocNext]_vars

\* the allocator as a function body drives it between two calls: registers are
\* taken with apply_next and given back with pop, never pushed by number
FreshNext ==
    \/ Ready /\ \E h \in 0..MaxHeight : Normal(h)
    \/ Ready /\ \E k \in 1..(MaxHeight + 1) : Pop(k)
    \/ Ready /\ \E d \in 1..MaxReg : Offset(d)
    \/ Ready /\ ApplyNext
    \/ Ready /\ ApplyPop1
    \/ Ready /\ \E writer \in Writers : Normalize(writer)
    \/ Resume

SpecFresh == Init /\ [][FreshNext]_vars

\* the registry on its own: the declarations of the units, one after another
SpecReg == Init /\ [][RegNext]_vars

\* the whole run: the units are walked, compile returns, main exits or emits
SpecCompile == Init /\ [][CompileNext]_vars

\* the lowering of one literal
SpecLit == Init /\ [][LitNext]_vars

(* ---------------- claims about RegisterAllocation::normalize ----------- *)
\* a register file in which every register holds its own index as its value
RegFile0 == [r \in 0..(MaxHeight + MaxReg + 2) |-> r]

\* the reference interpreter: run the MOV lines <<dest, src>> in order
RECURSIVE Exec(_, _)
Exec(lines, rf) ==
    IF Len(lines) = 0 THEN rf
    ELSE Exec(Tail(lines), [rf EXCEPT ![lines[1][1]] = rf[lines[1][2]]])

Normalized == last.op = "normalize"

\* the slots whose register is not the canonical one
Misplaced(a) == {i \in 1..Len(a) : a[i] # i}

\* the slot reached from slot i by following "slot j wants register a[j]" n times; 0 off the stack
RECURSIVE Follow(_, _, _)
Follow(a, i, n) ==
    IF n = 0 THEN i
    ELSE LET j == Follow(a, i, n - 1)
         IN IF j \in 1..Len(a) THEN a[j] ELSE 0

\* the cycles (length >= 2) of the pending moves, each as its set of registers
Cycles(a) ==
    {{Follow(a, i, n) : n \in 0..Len(a)} :
        i \in {k \in Misplaced(a) : \E n \in 2..Len(a) : Follow(a, k, n) = k}}

\* C1: when every line was written, running the emitted MOV lines in order
\* leaves register i holding what register A[i] held, for every slot i
C1_NormalizeCorrect ==
    (Normalized /\ last.result = Ok) =>
        \A i \in 1..Len(last.pre) : Exec(last.out, RegFile0)[i] = last.pre[i]

\* C2: after normalize, with Ok or Err, the allocation has its old height H
\* and is exactly <<1, ..., H>>
C2_Canonical ==
    Normalized =>
        /\ Len(alloc) = Len(last.pre)
        /\ \A i \in 1..Len(alloc) : alloc[i] = i

C2_Witness ==
    /\ Normalized
    /\ last.result # Ok
    /\ Cardinality(Misplaced(last.pre)) >= 3
    /\ \E i \in 1..Len(last.pre) : last.pre[i] > Len(last.pre)

\* C3: the number of MOV lines written (no write failing) is d + c: d misplaced
\* slots, c disjoint cycles of the pending moves; none for a canonical allocation
C3_MoveCount ==
    (Normalized /\ last.result = Ok) =>
        Len(last.out) = Cardinality(Misplaced(last.pre)) + Cardinality(Cycles(last.pre))

C3_Witness ==
    /\ Normalized
    /\ last.result = Ok
    /\ Cardinality(Cycles(last.pre)) = 2
    /\ Len(last.out) = 6

\* C4: a single two-cycle between a and b gives exactly three moves, the first
\* writing H+1 and the last reading it, writes only a, b and H+1, exchanges the
\* two registers' values and leaves the allocation canonical
TwoCycle(a, x, y) ==
    /\ x # y
    /\ Misplaced(a) = {x, y}
    /\ a[x] = y
    /\ a[y] = x

C4_TwoCycle ==
    \A x, y \in 1..Len(last.pre) :
        (Normalized /\ last.result = Ok /\ TwoCycle(last.pre, x, y)) =>
            LET H == Len(last.pre)
                rf == Exec(last.out, RegFile0)
            IN /\ Len(last.out) = 3
               /\ last.out[1][1] = H + 1
               /\ last.out[3][2] = H + 1
               /\ \A k \in 1..Len(last.out) : last.out[k][1] \in {x, y, H + 1}
               /\ rf[x] = y
               /\ rf[y] = x
               /\ alloc = normal(H)

C4_Witness ==
    /\ Normalized
    /\ last.result = Ok
    /\ Len(last.pre) = 4
    /\ TwoCycle(last.pre, 1, 3)

\* C5: when a write fails, the allocation still ends as <<1..H>>, max_regs ends
\* as it would have with no failing write, and the first error is what is returned
WriteFailed ==
    /\ Normalized
    /\ last.arg # {}
    /\ \E k \in last.arg : k <= Len(normalize(last.pre, last.premax, {}).out)

C5_WriteFailure ==
    WriteFailed =>
        /\ alloc = normal(Len(last.pre))
        /\ max_regs = normalize(last.pre, last.premax, {}).max_regs
        /\ last.result \in last.arg
        /\ \A k \in last.arg : last.result <= k

C5_Witness ==
    /\ WriteFailed
    /\ last.arg = {1, 2}
    /\ Len(last.out) = 0
    /\ last.premax < last.pre[1]
    /\ last.pre[1] < max_regs
    /\ Cardinality(Cycles(last.pre)) = 1

\* C6: applying (N : 0 1 ... N-1) leaves the allocation as it was; normalizing
\* a canonical allocation, before it or after it, writes no move and leaves
\* max_regs alone
IsIdentity(perm) ==
    /\ Len(perm.output) = perm.input
    /\ \A j \in 1..perm.input : perm.output[j] = j - 1

C6_IdentityPermutation ==
    /\ (last.op = "apply_permutation" /\ IsIdentity(last.arg)) =>
          /\ alloc = last.pre
          /\ (last.pre = normal(Len(last.pre))) =>
                \A w \in Writers :
                    LET n == normalize(alloc, max_regs, w)
                    IN n.out = <<>> /\ n.result = Ok /\ n.max_regs = max_regs
    /\ (Normalized /\ last.pre = normal(Len(last.pre))) =>
          /\ last.out = <<>>
          /\ last.result = Ok
          /\ max_regs = last.premax

C6_Witness ==
    /\ last.op = "apply_permutation"
    /\ IsIdentity(last.arg)
    /\ last.arg.input = 2
    /\ Len(last.pre) = 3
    /\ last.pre = normal(3)
    /\ max_regs > 0

(* ---------------------- claims about the registry ---------------------- *)
\* the errors the last declaration added
Added == SubSeq(errors, lastDecl.nerr + 1, Len(errors))

AddedKinds == {Added[i].kind : i \in 1..Len(Added)}

\* the entry of the declared name, after the declaration
Entry == functions[lastDecl.name]

\* the last declaration met a Deferred entry under its name
OnDeferred == lastDecl.before # Absent /\ lastDecl.before.body = "Deferred"

\* the last declaration met an entry that is not Deferred
OnDefined == lastDecl.before # Absent /\ lastDecl.before.body # "Deferred"

Definitions == {"func", "extern_func"}

BodyOf(form) == IF form = "func" THEN "Ursl" ELSE "Extern"

Promoted ==
    /\ Entry.body = BodyOf(lastDecl.form)
    /\ Entry.stack = lastDecl.before.stack

\* C7 as stated: a func or extern on a Deferred entry adds no error and
\* promotes the entry when the stack behaviours are equal, and adds a
\* 'Conflicting stack behaviour' error and leaves it Deferred when they differ
C7_AsStated ==
    (lastDecl.form \in Definitions /\ OnDeferred) =>
        IF lastDecl.stack = lastDecl.before.stack
        THEN Added = <<>> /\ Promoted
        ELSE /\ "Conflicting stack behaviour" \in AddedKinds
             /\ Entry = lastDecl.before

\* the errors an extern declaration adds for its own label and calling convention
ExternKinds == {"Raw label name must not contain a dot",
                "Hexagn name mangling is not supported",
                "Hexagn only supports single word returns"}

\* C7 amended: with equal stack behaviours the entry is promoted and the only
\* errors added are an extern's errors about its own label or calling convention
\* (none for a func); with different ones a 'Conflicting stack behaviour' error
\* is added and the entry stays as it was, Deferred
C7_PromoteDeferred ==
    (lastDecl.form \in Definitions /\ OnDeferred) =>
        IF lastDecl.stack = lastDecl.before.stack
        THEN /\ Promoted
             /\ AddedKinds \subseteq ExternKinds
             /\ (lastDecl.form = "func") => Added = <<>>
        ELSE /\ "Conflicting stack behaviour" \in AddedKinds
             /\ Entry = lastDecl.before

C7_Witness ==
    /\ lastDecl.form = "extern_func"
    /\ OnDeferred
    /\ lastDecl.stack = lastDecl.before.stack
    /\ Entry.body = "Extern"
    /\ Added # <<>>

InstForms == {"inst", "inst_branch", "inst_permutation"}

\* C8 as stated: an inst, branch or permutation declaration on a Deferred
\* entry of matching signature promotes it and adds no error
C8_AsStated ==
    (lastDecl.form \in InstForms /\ OnDeferred /\ lastDecl.stack = lastDecl.before.stack) =>
        /\ Added = <<>>
        /\ Entry.body = (IF lastDecl.form = "inst_permutation" THEN "Permutation" ELSE "Urcl")

\* C8 amended: on a Deferred entry, an inst or branch declaration adds an
\* 'is also defined at' error and leaves the entry Deferred, and a permutation
\* declaration adds that error and puts a Permutation entry in its place,
\* whether or not the signatures match
C8_DeferredNotPromoted ==
    (lastDecl.form \in InstForms /\ OnDeferred) =>
        /\ "inst is also defined at" \in AddedKinds
        /\ IF lastDecl.form = "inst_permutation"
           THEN Entry.body = "Permutation" /\ Entry.stack = lastDecl.stack
           ELSE Entry = lastDecl.before

C8_Witness ==
    /\ lastDecl.form = "inst_branch"
    /\ lastDecl.name = "$main"
    /\ OnDeferred
    /\ lastDecl.stack = lastDecl.before.stack
    /\ Len(Added) = 1

\* the two cases C9 excepts: an inst of equal signature on an Urcl entry, and
\* a first branch of matching signature on an Urcl entry
Excepted ==
    /\ lastDecl.before.body = "Urcl"
    /\ \/ lastDecl.form = "inst" /\ lastDecl.stack = lastDecl.before.stack
       \/ /\ lastDecl.form = "inst_branch"
          /\ lastDecl.before.branch = NoBranch
          /\ lastDecl.stack = lastDecl.before.stack

DunderForms == {"dunder_unary", "dunder_binary", "dunder_branching"}

C10_OverloadsAgree ==
    \A name \in Names :
        (functions[name] # Absent /\ functions[name].body = "Urcl") =>
            \A k \in 1..Len(functions[name].overloads) :
                functions[name].overloads[k].stack = functions[name].stack

\* the last declaration was a branch that met an Urcl entry
BranchOnUrcl ==
    /\ lastDecl.form = "inst_branch"
    /\ lastDecl.before # Absent
    /\ lastDecl.before.body = "Urcl"

\* C11: a branch declaration on an Urcl entry sets the entry's branch only when
\* the entry has no branch yet, the input arities are equal and the entry's
\* output arity is 1; when the entry has a branch already or the signature
\* differs, an error is added and the branch stored before (or its absence) is
\* what the entry still holds
C11_BranchKept ==
    BranchOnUrcl =>
        IF lastDecl.before.branch = NoBranch /\ lastDecl.stack = lastDecl.before.stack
        THEN Entry.branch # NoBranch /\ Entry.branch.pos = lastDecl.idx
        ELSE Added # <<>> /\ Entry.branch = lastDecl.before.branch

\* the forms that define a user instruction
InstructionForms == InstForms \cup DunderForms

\* C12: every inst, branch, permutation or dunder declaration of an instruction
\* named halt or ret adds an error
C12_IntrinsicReserved ==
    (lastDecl.form \in InstructionForms /\ lastDecl.name \in Intrinsics) => Added # <<>>

(* ------------------- claims about compile, main and emit --------------- *)
\* compile has returned: errors is the list it returned
Compiled == run.stage # "compile"

ReturnedKinds == {errors[i].kind : i \in 1..Len(errors)}

MainErrorKinds == {"No $main function", "$main may not take any arguments",
                   "$main may not return any values"}

\* C13: with no_main unset, compile returns an error unless $main is in the
\* registry with stack behaviour (0, 0): a positionless one when $main is
\* missing, one for a non-zero input arity, one for a non-zero output arity;
\* with no_main set it returns none of the three, whatever the registry
C13_MainRequired ==
    Compiled =>
        LET m == functions["$main"]
        IN IF run.no_main
           THEN ReturnedKinds \cap MainErrorKinds = {}
           ELSE /\ (m = Absent \/ m.stack # stack(0, 0)) => errors # <<>>
                /\ (m = Absent) =>
                      \E i \in 1..Len(errors) :
                          errors[i].kind = "No $main function" /\ errors[i].pos = 0
                /\ (m # Absent /\ m.stack.input # 0) =>
                      "$main may not take any arguments" \in ReturnedKinds
                /\ (m # Absent /\ m.stack.output # 0) =>
                      "$main may not return any values" \in ReturnedKinds

C13_Witness ==
    /\ Compiled
    /\ ~run.no_main
    /\ functions["$main"] # Absent
    /\ functions["$main"].body = "Ursl"
    /\ functions["$main"].stack = stack(0, 1)
    /\ Len(errors) = 1

FuncForms == {"deferred_func", "extern_func", "func"}

\* the units hold two declarations, of one name, by two of the forms deferred,
\* extern and func (one of them at least giving a body), with different stack
\* behaviours, and the $main checks are off
DeclaredTwice ==
    /\ Compiled
    /\ run.no_main
    /\ lastDecl.idx = 2
    /\ lastDecl.form \in FuncForms
    /\ lastDecl.before # Absent
    /\ lastDecl.before.body \in {"Deferred", "Extern", "Ursl"}
    /\ ~(lastDecl.form = "deferred_func" /\ lastDecl.before.body = "Deferred")
    /\ lastDecl.before.stack # lastDecl.stack

\* C14: two declarations of one function name with different stack behaviours,
\* by any two of the forms deferred, extern and func in either order, in a
\* program with nothing else wrong, make compile return exactly one error for
\* that name
C14_OneError ==
    DeclaredTwice =>
        Cardinality({i \in 1..Len(errors) : errors[i].name = lastDecl.name}) = 1

\* (unit, row) of a before (unit, row) of b, or the same
NotAfter(a, b) ==
    \/ PositionOf(a.pos).unit < PositionOf(b.pos).unit
    \/ /\ PositionOf(a.pos).unit = PositionOf(b.pos).unit
       /\ PositionOf(a.pos).row <= PositionOf(b.pos).row

\* C15: the list compile returns is ordered by the unit and then the start
\* line of each error's position, and the errors without a position come after
\* all those that have one
C15_Sorted ==
    Compiled =>
        \A i, j \in 1..Len(errors) :
            i < j =>
                /\ (errors[i].pos = 0) => (errors[j].pos = 0)
                /\ (errors[i].pos # 0 /\ errors[j].pos # 0) => NotAfter(errors[i], errors[j])

\* a declaration that parse_functions may be handed next
SomeDecl ==
    \/ \E name \in Names, st \in MainStacks : DeferredFunc(name, st)
    \/ \E name \in Names, st \in MainStacks : Func(name, st)

\* C16: the output file is created, and emit is run, exactly when compile
\* returned no error or fuck_it is set; with an error and fuck_it unset the
\* process exits with code 1 and no file is created or written; and while the
\* units hold a further declaration it is handled, errors or not
C16_ExitOrEmit ==
    /\ (run.stage = "exit") =>
          /\ run.created <=> (errors = <<>> \/ run.fuck_it)
          /\ run.emitted <=> run.created
          /\ (run.file # <<>>) <=> run.created
          /\ run.created => run.code = 0
          /\ (errors # <<>> /\ ~run.fuck_it) => run.code = 1
    /\ (run.stage # "exit") => (~run.created /\ ~run.emitted /\ run.file = <<>>)
    /\ (run.stage = "compile" /\ lastDecl.idx < MaxDecls) => ENABLED SomeDecl

C16_Witness ==
    /\ run.stage = "exit"
    /\ run.code = 1
    /\ ~run.fuck_it
    /\ ~run.created
    /\ lastDecl.idx = 2
    /\ lastDecl.nerr > 0

\* the lines of the file with this op
LinesOf(op) == SelectSeq(run.file, LAMBDA l : l.op = op)

UrslNames == {n \in Names : functions[n] # Absent /\ functions[n].body = "Ursl"}

\* C17: the file holds BITS, MINHEAP, MINSTACK, MINREG, then CAL $main and
\* HLT exactly when no_main is unset, then one entry per data definition in
\* declaration order (units in order, and in order within a unit), then the
\* code of the Ursl functions and of no other, by name in lexicographic order;
\* MINREG's operand is max_regs as it is after all functions were lowered
C17_EmitOrder ==
    run.emitted =>
        LET f == run.file
            c == IF run.no_main THEN 0 ELSE 2
            d == Len(defs)
            code == LinesOf("code")
        IN /\ Len(f) = 4 + c + d + Len(code)
           /\ <<f[1].op, f[2].op, f[3].op, f[4].op>> = <<"BITS", "MINHEAP", "MINSTACK", "MINREG">>
           /\ (~run.no_main) => (f[5] = Line("CAL", "$main", 0) /\ f[6].op = "HLT")
           /\ run.no_main => (LinesOf("CAL") = <<>> /\ LinesOf("HLT") = <<>>)
           /\ \A i \in 1..d : f[4 + c + i] = Line("DW", defs[i].label, 0)
           /\ \A i, j \in 1..d :
                 i < j => \/ defs[i].unit < defs[j].unit
                          \/ defs[i].unit = defs[j].unit /\ defs[i].pos < defs[j].pos
           /\ \A i \in 1..Len(code) : f[4 + c + d + i] = code[i]
           /\ {code[i].name : i \in 1..Len(code)} = UrslNames
           /\ Len(code) = Cardinality(UrslNames)
           /\ \A i, j \in 1..Len(code) :
                 i < j => ~(code[i].name = "halt" /\ code[j].name = "$main")
           /\ f[4].n = max_regs
           /\ \A n \in UrslNames : max_regs >= run.needs[n]
           /\ (max_regs # 0) => \E n \in UrslNames : max_regs = run.needs[n]

C17_Witness ==
    /\ run.emitted
    /\ ~run.no_main
    /\ UrslNames = Names
    /\ functions["halt"].pos < functions["$main"].pos
    /\ run.needs["$main"] = 3
    /\ run.needs["halt"] = 0

(* ------------------------ claims about lower_literal ------------------- *)
\* the fewest bits that hold n: n < 2^k, and n >= 2^(k-1) unless k = 0
BitLength(n) ==
    CHOOSE k \in 0..(MaxBits + 12) : n < 2 ^ k /\ (k = 0 \/ n >= 2 ^ (k - 1))

Accepted == lit.result.panic = "none"

\* the number lower_literal has to check: the Num it was given, or the
\* codepoint of the Char that emit_chars_as_numbers turns into a Num
Checked ==
    \/ lit.element.kind = "Num"
    \/ lit.element.kind = "Char" /\ lit.args.emit_chars_as_numbers

\* C18: a numeric literal n, given as a Num or come from a Char under
\* emit_chars_as_numbers, is accepted exactly when bitlength(n) <= bits, 0 for
\* every bits; so every Num that lower_literal returns fits in bits
C18_FitsInBits ==
    lit.called =>
        /\ Checked => (Accepted <=> BitLength(lit.element.v) <= lit.headers.bits)
        /\ (Checked /\ lit.element.v = 0) => Accepted
        /\ (Accepted /\ lit.result.value.kind = "Num") =>
              lit.result.value.v < 2 ^ lit.headers.bits

C18_Witness ==
    /\ lit.called
    /\ lit.element = Literal("Num", 256)
    /\ lit.headers.bits = 8
    /\ ~Accepted

UnknownEscape ==
    /\ lit.called
    /\ lit.element.kind = "CharEscape"
    /\ lit.element.v \notin {39, 92, 110, 114, 116, 48}

\* C19 as stated: an escape other than ' \ n r t 0 fails with the
\* unknown-escape error under every combination of the options
C19_AsStated ==
    UnknownEscape => lit.result.panic = "Unknown escape sequence"

\* C19 amended: such an escape fails with the unknown-escape error when
\* emit_chars_literally is set (by -c, or by -C, which sets it); when it is
\* unset the literal is returned as it was given
C19_UnknownEscape ==
    UnknownEscape =>
        IF lit.args.emit_chars_literally
        THEN lit.result.panic = "Unknown escape sequence"
        ELSE lit.result = Returns(lit.element)

C19_Witness ==
    /\ UnknownEscape
    /\ lit.args.emit_chars_as_numbers
    /\ lit.element.v = 113
    /\ lit.result.panic = "Unknown escape sequence"

(* ------------------ claims about normalize, acyclic moves -------------- *)
\* the last call was a normalize whose every write was accepted, on an
\* allocation whose pending moves hold no cycle
Acyclic ==
    /\ Normalized
    /\ last.result = Ok
    /\ Cycles(last.pre) = {}

\* C20: when the pending moves hold no cycle, normalize writes exactly one MOV
\* per misplaced slot, every register written is one of 1..H (never the
\* temporary H+1), no move writes a register that a later move reads, and the
\* moves run in order leave slot i's value in register i
C20_AcyclicChains ==
    Acyclic =>
        LET out == last.out
            H == Len(last.pre)
        IN /\ Len(out) = Cardinality(Misplaced(last.pre))
           /\ {out[k][1] : k \in 1..Len(out)} = Misplaced(last.pre)
           /\ \A k \in 1..Len(out) : out[k][1] \in 1..H
           /\ \A j, k \in 1..Len(out) : j < k => out[j][1] # out[k][2]
           /\ \A i \in 1..H : Exec(out, RegFile0)[i] = last.pre[i]

C20_Witness ==
    /\ Acyclic
    /\ last.pre = <<3, 1>>
    /\ last.out = <<<<2, 1>>, <<1, 3>>>>

(* ------------------------- max_regs accounting ------------------------- *)
\* the registers named by a list of moves <<dest, src>>
RegsOf(moves) == UNION {{moves[i][1], moves[i][2]} : i \in 1..Len(moves)}

\* the largest member of a non-empty set of numbers
MaxOf(S) == CHOOSE m \in S : \A x \in S : x <= m

\* the moves this normalization works out, whether or not the stream took them
MovesOf(a) == normalize(a, 0, {}).out

\* C21: after normalize, max_regs is the maximum of its previous value and of
\* the source and destination of every move of the normalization (the moves
\* that reached the stream when no write failed, and the same moves when one
\* did), the temporary H+1 among them whenever moves are left for the cycle
\* phase; max_regs is never below its previous value and is unchanged when
\* the normalization has no move
C21_MaxRegs ==
    Normalized =>
        /\ max_regs >= last.premax
        /\ max_regs = MaxOf({last.premax} \cup RegsOf(MovesOf(last.pre)))
        /\ last.result = Ok =>
              /\ last.out = MovesOf(last.pre)
              /\ max_regs = MaxOf({last.premax} \cup RegsOf(last.out))
              /\ last.out = <<>> => max_regs = last.premax
        /\ MovesOf(last.pre) = <<>> => max_regs = last.premax
        /\ Cycles(last.pre) # {} =>
              /\ (Len(last.pre) + 1) \in RegsOf(MovesOf(last.pre))
              /\ max_regs >= Len(last.pre) + 1

\* a two-cycle is broken through the temporary 3, which becomes max_regs
C21_Witness ==
    /\ Normalized
    /\ last.pre = <<2, 1>>
    /\ last.premax = 0
    /\ last.result = Ok
    /\ max_regs = 3

(* ------------------------- next and apply_next ------------------------- *)
\* the registers an allocation holds
Held(a) == {a[i] : i \in 1..Len(a)}

\* r is the smallest integer >= 1 that a does not hold
SmallestFree(a, r) ==
    /\ r >= 1
    /\ r \notin Held(a)
    /\ \A j \in 1..(r - 1) : j \in Held(a)

\* C22: next returns the smallest integer >= 1 the allocation does not hold,
\* so at most height + 1 and 1 for an empty allocation, and leaves the
\* allocation as it was; apply_next pushes exactly that register
C22_NextSmallestFree ==
    /\ last.op = "next" =>
          /\ SmallestFree(last.pre, last.ret)
          /\ last.ret <= Len(last.pre) + 1
          /\ last.pre = <<>> => last.ret = 1
          /\ alloc = last.pre
    /\ last.op = "apply_next" =>
          /\ SmallestFree(last.pre, last.ret)
          /\ last.ret <= Len(last.pre) + 1
          /\ last.pre = <<>> => last.ret = 1
          /\ alloc = Append(last.pre, last.ret)

\* apply_next takes the freed register 2 below the held 3
C22_Witness ==
    /\ last.op = "apply_next"
    /\ last.pre = <<1, 3>>
    /\ last.ret = 2
    /\ alloc = <<1, 3, 2>>

(* --------------------------- apply_permutation ------------------------- *)
\* C23: apply_permutation(P) on an allocation of depth D >= P.input replaces
\* the top P.input entries v by v[P.output[0]], ..., v[P.output[m-1]], leaves
\* the D - P.input entries below as and where they were, and the height is
\* D - P.input + m
C23_PermutationTop ==
    last.op = "apply_permutation" =>
        LET P == last.arg
            D == Len(last.pre)
            m == Len(P.output)
            below == D - P.input
        IN /\ Len(alloc) = below + m
           /\ \A i \in 1..below : alloc[i] = last.pre[i]
           /\ \A j \in 1..m : alloc[below + j] = last.pre[below + P.output[j] + 1]

\* (2: 0 1 0) above one untouched entry: an index repeats and m is not P.input
C23_Witness ==
    /\ last.op = "apply_permutation"
    /\ last.arg = Permutation(2, <<0, 1, 0>>)
    /\ last.pre = <<1, 2, 3>>
    /\ alloc = <<1, 2, 3, 2>>

(* ------------------- functions never given a body ---------------------- *)
\* the "declared, but never given a body" errors compile returned for name n
NeverGivenBody(n) ==
    {i \in 1..Len(errors) :
        errors[i].kind = "declared, but never given a body" /\ errors[i].name = n}

\* the entry of n is still Deferred
StillDeferred(n) == functions[n] # Absent /\ functions[n].body = "Deferred"

\* C24: once compile has processed all units, every name whose registry entry
\* is still Deferred has exactly one "declared, but never given a body" error,
\* and a name whose entry was promoted (or that has no entry) has none
C24_NeverGivenBody ==
    Compiled =>
        \A n \in Names :
            Cardinality(NeverGivenBody(n)) = IF StillDeferred(n) THEN 1 ELSE 0

\* halt's definition was rejected for its signature and halt stays Deferred,
\* with its one error
C24_Witness ==
    /\ Compiled
    /\ StillDeferred("halt")
    /\ lastDecl.form = "func"
    /\ lastDecl.name = "halt"
    /\ \E i \in 1..Len(errors) :
          errors[i].kind = "Conflicting stack behaviour" /\ errors[i].name = "halt"
    /\ Cardinality(NeverGivenBody("halt")) = 1

(* -------------------- signatures and the registry ---------------------- *)
\* the signature the registry entry f stands for
SignatureOf(f) == <<f.stack, f.body = "Urcl" /\ f.branch # NoBranch>>

\* C25: after any declarations of any forms, signatures and the registry hold
\* the same names, and the signature of a name is (its entry's stack behaviour,
\* whether the entry is an inst body with a branch overload); so the branch
\* case finds the signature it unwraps
C25_SignaturesAgree ==
    /\ \A n \in Names :
          /\ (signatures[n] = Absent) <=> (functions[n] = Absent)
          /\ functions[n] # Absent => signatures[n] = SignatureOf(functions[n])
    /\ (lastDecl.form = "inst_branch" /\ lastDecl.before # Absent) =>
          signatures[lastDecl.name] # Absent

\* a branch is added to an inst that had none: get_mut(name).unwrap() is taken
C25_Witness ==
    /\ lastDecl.form = "inst_branch"
    /\ lastDecl.before # Absent
    /\ lastDecl.before.body = "Urcl"
    /\ lastDecl.before.branch = NoBranch
    /\ signatures[lastDecl.name] = <<lastDecl.before.stack, TRUE>>

(* ------------------------- registers held once ------------------------- *)
\* C26: from RegisterAllocation::normal(h) or an empty allocation, after any
\* apply_next, pop(k), apply_pop1 and normalize (and offset) the allocation
\* holds no register twice and no register 0, so is_unique holds of every
\* register it holds; pop(k) with k above the height leaves it empty, and
\* apply_pop1 on an empty allocation returns 0 and leaves it empty
C26_HeldOnce ==
    /\ \A i \in 1..Len(alloc) :
          /\ alloc[i] # 0
          /\ is_unique(alloc, alloc[i])
          /\ \A j \in 1..Len(alloc) : alloc[j] = alloc[i] => j = i
    /\ (last.op = "pop" /\ last.arg > Len(last.pre)) => alloc = <<>>
    /\ (last.op = "apply_pop1" /\ last.pre = <<>>) => (last.ret = 0 /\ alloc = <<>>)

\* pop(4) on the three registers 2, 3 and the reused 1
C26_Witness ==
    /\ last.op = "pop"
    /\ last.pre = <<2, 3, 1>>
    /\ last.arg = 4
    /\ alloc = <<>>

====
